---- MODULE Spec2Model ----
(***************************************************************************)
(* A model of mygrate.  The binlog follower (src/mygrate/binlog.py): the   *)
(* line parser (QueryBase and its subclasses, QueryParser), the per-binlog *)
(* position files, the mysqlbinlog child process behind a pipe, the sweep  *)
(* loop, the shutdown flag and the mygrate-skip command.  Beside it: the   *)
(* callback registry (callbacks.py), the bulk importer (query.py), the     *)
(* task worker (tasks.py), and one position file written statement by      *)
(* statement.  Each has its own specification; the variables of the others *)
(* stay as they start.                                                     *)
(***************************************************************************)
EXTENDS Integers, Sequences, FiniteSets, TLC

\* ------------------------------------------------------------------ bounds
\* Number of `# at` blocks a binlog holds at most.
MaxBlocks == 2
\* Number of times the agent process is started (a restart follows an exit or a crash).
MaxRuns == 2
\* Largest modification time a binlog reaches (it starts at 1).
MaxMtime == 2
\* Lines the pipe between mysqlbinlog and the agent holds before a write blocks.
PipeCap == 1

\* ------------------------------------------------------------ decoder text
\* One line of mysqlbinlog output.  k is the shape of the line:
\*   "at"    `# at <n>`
\*   "hdr"   `### <word> ...`, a line that starts with INSERT, UPDATE or DELETE;
\*           ok says whether it matches the _initial_pattern of the query, raw holds
\*           the dot-separated identifiers of the captured table reference
\*   "SET", "WHERE"   `### SET`, `### WHERE`
\*   "col"   `###   @<n>=<tok>`
\*   "junk"  any other `### ` line
\*   "other" a line that starts neither with `### ` nor with `# at `
Line(k, word, ok, raw, n, tok) ==
    [k |-> k, word |-> word, ok |-> ok, raw |-> raw, n |-> n, tok |-> tok]

At(n) == Line("at", "", TRUE, <<>>, n, <<>>)
Hdr(word, raw) == Line("hdr", word, TRUE, raw, 0, <<>>)
BadHdr(word) == Line("hdr", word, FALSE, <<>>, 0, <<>>)
SetLine == Line("SET", "", TRUE, <<>>, 0, <<>>)
WhereLine == Line("WHERE", "", TRUE, <<>>, 0, <<>>)
Col(n, tok) == Line("col", "", TRUE, <<>>, n, tok)
Junk == Line("junk", "", TRUE, <<>>, 0, <<>>)
Other == Line("other", "", TRUE, <<>>, 0, <<>>)

\* An identifier of a table reference: its name, and whether mysqlbinlog printed it
\* between backquotes.
Ident(name, quoted) == [name |-> name, quoted |-> quoted]

\* Table references as mysqlbinlog prints them (both identifiers quoted).
T1 == <<Ident("db1", TRUE), Ident("t1", TRUE)>>
TOther == <<Ident("db1", TRUE), Ident("other", TRUE)>>

\* ident.strip of the backquote character: the bare name, quoted or not.
StripTicks(ident) == ident.name

RECURSIVE JoinDots(_)
JoinDots(ids) ==
    IF ids = <<>> THEN ""
    ELSE IF Len(ids) = 1 THEN ids[1]
    ELSE ids[1] \o "." \o JoinDots(Tail(ids))

\* The absent value (None in Python) of a table name or of a column value.
None == "None"

\* cfg.get_callbacks(): the tables that have a callback module.
callbacks == {"db1.t1"}

\* BinlogParser.column_names after load_column_names: one vector per callback table.
column_names == [t \in callbacks |-> <<"id", "name">>]

\* BinlogParser.char_sets after load_character_sets.
char_sets == [t \in callbacks |-> "latin1"]

\* ------------------------------------------------------------------ values
\* A value token is a sequence of space-separated words.  ast.literal_eval accepts
\* a token that is one literal word.
IntLiterals == {"42", "7", "1234"}
StrLiterals == {"'hello'", "'old'", "'new'"}

literal_eval_ok(tok) == Len(tok) = 1 /\ tok[1] \in IntLiterals \cup StrLiterals

\* A decoded value: the literal and the character set a byte string went through.
Value(lit, cs) == [lit |-> lit, cs |-> cs]
NoneValue == Value(None, "")

RECURSIVE _parse_value(_, _)
_parse_value(tok, char_set) ==
    IF literal_eval_ok(tok)
    THEN IF char_set # None /\ tok[1] \in StrLiterals
         THEN Value(tok[1], char_set)
         ELSE Value(tok[1], "")
    ELSE IF Len(tok) > 1
         THEN _parse_value(<<tok[1]>>, char_set)
         ELSE NoneValue

\* ------------------------------------------------------------------ queries
\* A query being read: QueryBase's fields.  current_value_type is None until a SET
\* or WHERE line.  src is the journal line of the header; it is bookkeeping of the
\* model and no field of the program.
Query(type, table, invalid, src) ==
    [type |-> type, table |-> table, invalid |-> invalid,
     current_value_type |-> None, WHERE |-> <<>>, SET |-> <<>>, src |-> src]

\* A binlog path: directory, base name and extension (os.path.splitext).
Path(dir, base, ext) == [dir |-> dir, base |-> base, ext |-> ext]
NoPath == Path("", "", "")

\* The journal line a query or an event comes from.
Src(path, line) == [path |-> path, line |-> line]
NoSrc == Src(NoPath, 0)

\* QueryParser.current = None.
NoQuery == Query("none", None, FALSE, NoSrc)

\* QueryBase._parse_initial_line: the table id, or None when the pattern fails.
_parse_initial_line(line) ==
    IF ~line.ok THEN None
    ELSE JoinDots([i \in 1..Len(line.raw) |-> StripTicks(line.raw[i])])

\* QueryBase.__init__ of the subclass the header word selects.
NewQuery(line, src) ==
    Query(line.word, _parse_initial_line(line), ~line.ok, src)

\* What a step of the parser yields: the query it leaves, the events it handed to
\* the task queue, and the exception it raised ("" when none).
Result(q, out, err) == [q |-> q, out |-> out, err |-> err]

\* The column line appended to the list the current value type selects;
\* self.values[None] is a KeyError.
AppendValue(q, v) ==
    CASE q.current_value_type = "SET" -> Result([q EXCEPT !.SET = Append(@, v)], <<>>, "")
      [] q.current_value_type = "WHERE" -> Result([q EXCEPT !.WHERE = Append(@, v)], <<>>, "")
      [] OTHER -> Result(q, <<>>, "KeyError")

\* self.char_sets.get(self.table).
char_set_of(table) ==
    IF table \in DOMAIN char_sets THEN char_sets[table] ELSE None

\* QueryBase.parse: one line of the body of the current query.
Query_parse(q, line) ==
    IF line.k \in {"SET", "WHERE"}
    THEN Result([q EXCEPT !.current_value_type = line.k], <<>>, "")
    ELSE IF line.k # "col"
    THEN Result([q EXCEPT !.invalid = TRUE], <<>>, "")
    ELSE AppendValue(q, _parse_value(line.tok, char_set_of(q.table)))

\* The dict a finish() loop builds: names[i] -> vals[i], a later i overwriting.
ColumnMap(names, vals) ==
    [key \in {names[i] : i \in 1..Len(vals)} |->
        vals[CHOOSE i \in 1..Len(vals) :
                /\ names[i] = key
                /\ \A j \in 1..Len(vals) : names[j] = key => j <= i]]

EmptyMap == ColumnMap(<<>>, <<>>)

\* A task handed to the queue: tasks.INSERT/UPDATE/DELETE.delay(table, ...).  src
\* and invalid are copied from the query for the properties; they are not sent.
Event(q, where, set) ==
    [type |-> q.type, table |-> q.table, where |-> where, set |-> set,
     src |-> q.src, invalid |-> q.invalid]

\* The lists a finish() of this query type enumerates, in order.
ListsRead(q) ==
    CASE q.type = "INSERT" -> <<q.SET>>
      [] q.type = "UPDATE" -> <<q.WHERE, q.SET>>
      [] q.type = "DELETE" -> <<q.WHERE>>

\* InsertQuery.finish, UpdateQuery.finish, DeleteQuery.finish:
\* self.column_names[self.table] is a KeyError for a table without a vector, and
\* table_column_names[i] an IndexError past the end of the vector.
Query_finish(q) ==
    IF q.table \notin DOMAIN column_names THEN Result(q, <<>>, "KeyError")
    ELSE
    LET names == column_names[q.table]
        lists == ListsRead(q)
    IN IF \E k \in 1..Len(lists) : Len(lists[k]) > Len(names)
       THEN Result(q, <<>>, "IndexError")
       ELSE Result(q,
                   <<Event(q,
                           IF q.type = "INSERT" THEN EmptyMap ELSE ColumnMap(names, q.WHERE),
                           IF q.type = "DELETE" THEN EmptyMap ELSE ColumnMap(names, q.SET))>>,
                   "")

\* QueryParser._handle_completion.
_handle_completion(current) ==
    IF current # NoQuery THEN Query_finish(current) ELSE Result(current, <<>>, "")

\* A header that keeps its query whether or not the table has a callback.
TrackedAlways(query) == query

\* The query a header line leaves as QueryParser.current.
Tracked(query) == IF query.table \in callbacks THEN query ELSE NoQuery

\* A parse whose header of a table without a callback leaves the query in
\* progress where it is.
QueryParser_parse_keep(current, line, src) ==
    IF line.k = "hdr"
    THEN LET fin == _handle_completion(current)
             query == NewQuery(line, src)
         IN IF fin.err # "" THEN fin
            ELSE Result(IF query.table \in callbacks THEN query ELSE current, fin.out, "")
    ELSE IF current # NoQuery
    THEN Query_parse(current, line)
    ELSE Result(current, <<>>, "")

\* QueryParser.parse.
QueryParser_parse(current, line, src) ==
    IF line.k = "hdr"
    THEN LET fin == _handle_completion(current)
         IN IF fin.err # "" THEN fin
            ELSE Result(Tracked(NewQuery(line, src)), fin.out, "")
    ELSE IF current # NoQuery
    THEN Query_parse(current, line)
    ELSE Result(current, <<>>, "")

\* A finish that forgets the query in progress.
QueryParser_finish_forget(current) == Result(NoQuery, <<>>, "")

\* QueryParser.finish.
QueryParser_finish(current) ==
    LET fin == _handle_completion(current)
    IN IF fin.err # "" THEN fin ELSE Result(NoQuery, fin.out, "")

\* ----------------------------------------------------------------- journals
\* The bodies a block of a journal can have, after its `# at` line.
InsertBody == <<Hdr("INSERT", T1), SetLine, Col(1, <<"42">>), Col(2, <<"'hello'">>)>>
UpdateBody ==
    <<Hdr("UPDATE", T1), WhereLine, Col(1, <<"7">>), Col(2, <<"'old'">>),
      SetLine, Col(1, <<"7">>), Col(2, <<"'new'">>)>>
DeleteBody == <<Hdr("DELETE", T1), WhereLine, Col(1, <<"1234", "/*", "INT", "meta", "*/">>), Col(2, <<"garbage">>)>>
\* Events of a table that has no callback.
UntrackedInsert == <<Hdr("INSERT", TOther), SetLine, Col(1, <<"42">>)>>
UntrackedUpdate == <<Hdr("UPDATE", TOther), WhereLine, Col(1, <<"7">>), SetLine, Junk>>
UntrackedDelete == <<Hdr("DELETE", TOther), Col(1, <<"7">>)>>
\* A malformed line inside an event.
InvalidBody == <<Hdr("INSERT", T1), SetLine, Col(1, <<"42">>), Junk, Col(2, <<"'hello'">>)>>
\* Fewer values than the table has columns.
ShortBody == <<Hdr("DELETE", T1), WhereLine, Col(1, <<"42">>)>>
\* More values than the table has columns.
LongBody == <<Hdr("INSERT", T1), SetLine, Col(1, <<"42">>), Col(2, <<"'hello'">>), Col(3, <<"7">>)>>
\* A column line with no SET or WHERE line before it.
BareBody == <<Hdr("INSERT", T1), Col(1, <<"42">>)>>
\* An event that carries no rows (a line the agent ignores).
NoRowsBody == <<Other>>
\* Column lines whose indices are not in increasing order.
SwappedBody == <<Hdr("INSERT", T1), SetLine, Col(2, <<"'hello'">>), Col(1, <<"42">>)>>
\* A line that starts with INSERT and is no INSERT INTO header.
BadHeaderBody == <<BadHdr("INSERT"), Col(1, <<"42">>)>>

\* The bodies that are well-formed events of a table with a callback, or no such
\* event at all.
CleanBodies == {InsertBody, UpdateBody, DeleteBody, UntrackedInsert, NoRowsBody}
\* Every body: what the parser is checked against.
Bodies ==
    CleanBodies \cup {UntrackedUpdate, UntrackedDelete, InvalidBody, ShortBody,
                      LongBody, BareBody, BadHeaderBody, SwappedBody}
\* The bodies the follower is checked against across crashes and restarts.
FollowerBodies ==
    {InsertBody, DeleteBody, UntrackedInsert, NoRowsBody, LongBody, BareBody}

\* The byte offset of the i-th block of a journal.
OffsetOf(i) == 4 + 48 * (i - 1)

RECURSIVE Blocks(_, _)
Blocks(bodies, i) ==
    IF i > Len(bodies) THEN <<>>
    ELSE <<At(OffsetOf(i))>> \o bodies[i] \o Blocks(bodies, i + 1)

JournalsOf(B) ==
    {Blocks(bs, 1) : bs \in UNION {[1..n -> B] : n \in 0..MaxBlocks}}

Journals == JournalsOf(Bodies)
FollowerJournals == JournalsOf(FollowerBodies)
CleanJournals == JournalsOf(CleanBodies)

\* The binlogs of the index file.
P1 == Path("/var/log/mysql", "mysql-bin", ".000001")
P2 == Path("/var/log/mysql", "mysql-bin", ".000002")
\* A binlog written under another base name, with the sequence number of P1.
P3 == Path("/var/log/mysql", "binlog", ".000001")
Paths == {P1, P2, P3}

\* ------------------------------------------------------------ position files
\* A position is a decimal string: a sequence of digits.
RECURSIVE DecStr(_)
DecStr(n) == IF n < 10 THEN <<n>> ELSE DecStr(n \div 10) \o <<n % 10>>

RECURSIVE DecVal(_)
DecVal(s) == IF s = <<>> THEN 0 ELSE 10 * DecVal(SubSeq(s, 1, Len(s) - 1)) + s[Len(s)]

\* A file of the tracking directory: whether it exists, and its content.
File(exists, data) == [exists |-> exists, data |-> data]
NoFile == File(FALSE, <<>>)

\* BinlogParser.build_pos_file.
build_pos_file(binlog) == "binlogpos" \o binlog.ext

PosFiles == {build_pos_file(b) : b \in Paths}

\* A read that takes every position file for a missing one.
read_position_zero(file) == <<0>>

\* BinlogParser.read_position: the content, or '0' for a missing or empty file.
read_position(file) ==
    IF file.exists /\ file.data # <<>> THEN file.data ELSE <<0>>

\* open(pos_file, 'w'): the file exists and is empty.
open_w(file) == File(TRUE, <<>>)

\* A write_position that does not truncate: the position lands after the old content.
write_position_append(file, pos) == File(TRUE, file.data \o pos)

\* BinlogParser.write_position: seek, truncate, write, flush.
write_position(file, pos) == File(TRUE, pos)

\* The text after `# at ` on a position line, right-stripped.
PositionText(line) == DecStr(line.n)

\* ------------------------------------------------------------------ decoder
\* mysqlbinlog -j <pos>: the events at byte offsets >= pos.  FirstLine is the index
\* of the first line printed (one past the end when there is none).
FirstLine(lines, pos) ==
    LET from == {i \in 1..Len(lines) : lines[i].k = "at" /\ lines[i].n >= DecVal(pos)}
    IN IF from = {} THEN Len(lines) + 1
       ELSE CHOOSE i \in from : \A j \in from : i <= j

\* A decoder that prints the whole binlog whatever the start position.
mysqlbinlog_whole(lines, pos) == lines

mysqlbinlog(lines, pos) == SubSeq(lines, FirstLine(lines, pos), Len(lines))

\* --------------------------------------------------------- MygrateCallbacks
\* The tables, actions, callbacks and error handlers a program registers.  A
\* callback either returns or raises an Exception; an installed error handler
\* either returns or raises an Exception of its own.
TableNames == {"db1.t1", "db2.t2"}
Actions == {"INSERT", "UPDATE", "DELETE"}
Callbacks == {"cb_returns", "cb_raises"}
_default_error_handler == "_default_error_handler"
ErrorHandlers == {_default_error_handler, "eh_returns", "eh_raises"}
\* The (args, kwargs) a caller passes: none, or a row and a keyword.
Arguments ==
    {[args |-> <<>>, kwargs |-> EmptyMap],
     [args |-> <<"cols">>, kwargs |-> ColumnMap(<<"dry_run">>, <<"1">>)]}

\* A dict with no key.
EmptyDict == [k \in {} |-> None]

\* One invocation of a callback, callback(table, *args, **kwargs) (no action
\* among its arguments), or of an error handler, handler(table, action, args,
\* kwargs).
Call(fn, table, action, args, kwargs) ==
    [fn |-> fn, table |-> table, action |-> action, args |-> args, kwargs |-> kwargs]

\* MygrateCallbacks.register: setdefault(table, {}), then the action is set.
register(cbs, table, action, callback) ==
    LET old == IF table \in DOMAIN cbs THEN cbs[table] ELSE EmptyDict
        new == [a \in DOMAIN old \cup {action} |->
                    IF a = action THEN callback ELSE old[a]]
    IN [t \in DOMAIN cbs \cup {table} |-> IF t = table THEN new ELSE cbs[t]]

\* MygrateCallbacks.get_registered_tables.
get_registered_tables(cbs) == DOMAIN cbs

\* Whether register was called for the pair.
Registered(cbs, table, action) ==
    table \in DOMAIN cbs /\ action \in DOMAIN cbs[table]

\* What a call does: the dict afterwards, the invocations made in order, how it
\* ends ("returns" or "raises") and whose exception leaves it.
Outcome(cbs, calls, result, exc) ==
    [callbacks |-> cbs, calls |-> calls, result |-> result, exc |-> exc]

\* An error handler that never lets the exception through.
error_handler_quiet(handler) == [result |-> "returns", exc |-> ""]

\* How the error handler ends when called in the except block: the default one
\* re-raises the callback's exception with a bare `raise`.
error_handler_ends(handler) ==
    CASE handler = _default_error_handler -> [result |-> "raises", exc |-> "callback"]
      [] handler = "eh_raises" -> [result |-> "raises", exc |-> "handler"]
      [] OTHER -> [result |-> "returns", exc |-> ""]

\* A lookup that inserts the missing table, as setdefault does.
lookup_setdefault(cbs, table) ==
    IF table \in DOMAIN cbs THEN cbs
    ELSE [t \in DOMAIN cbs \cup {table} |-> IF t = table THEN EmptyDict ELSE cbs[t]]

\* MygrateCallbacks.execute tests `table not in self.callbacks`: the dict is
\* only read.
lookup(cbs, table) == cbs

\* MygrateCallbacks.execute.
execute(cbs, handler, table, action, args, kwargs) ==
    LET seen == lookup(cbs, table)
    IN IF table \notin DOMAIN seen THEN Outcome(seen, <<>>, "returns", "")
       ELSE IF action \notin DOMAIN seen[table] THEN Outcome(seen, <<>>, "returns", "")
       ELSE LET callback == seen[table][action]
                call == Call(callback, table, None, args, kwargs)
                ecall == Call(handler, table, action, args, kwargs)
                ends == error_handler_ends(handler)
            IN IF callback = "cb_raises"
               THEN Outcome(seen, <<call, ecall>>, ends.result, ends.exc)
               ELSE Outcome(seen, <<call>>, "returns", "")

\* An execute call and what it did; NoExecute before the first one.
Executed(table, action, args, kwargs, r) ==
    [table |-> table, action |-> action, args |-> args, kwargs |-> kwargs,
     calls |-> r.calls, result |-> r.result, exc |-> r.exc]
NoExecute ==
    Executed(None, None, <<>>, EmptyMap, Outcome(EmptyDict, <<>>, None, ""))

\* -------------------------------------------------------------------- state
VARIABLES
    journal,        \* path -> the lines mysqlbinlog prints for the whole binlog
    index,          \* the binlog index file: a sequence of paths
    mtime,          \* path -> modification time of the binlog
    posfiles,       \* name -> File, the tracking directory
    dispatched,     \* the tasks handed to the queue, oldest first (all runs)
    run,            \* which start of the agent process this is
    pc,             \* where main() is
    done,           \* BinlogParser.done
    binlog_mtimes,  \* BinlogParser.binlog_mtimes (0 for a path not in the dict)
    binlogs,        \* process_all_binlogs: the list read from the index
    bi,             \* process_all_binlogs: position of the for loop in binlogs
    last_position,  \* process_binlog: last_position
    current,        \* process_binlog: p.current
    out,            \* the lines the mysqlbinlog child prints in all
    nwritten,       \* how many of them it has written to the pipe
    nread,          \* how many of them the agent has read from the pipe
    pass            \* a record of the latest process_binlog call (for the properties)

follower_vars ==
    <<journal, index, mtime, posfiles, dispatched, run, pc, done, binlog_mtimes,
      binlogs, bi, last_position, current, out, nwritten, nread, pass>>

\* The state of the programs beside the binlog follower.
VARIABLES
    registry,       \* MygrateCallbacks.callbacks: table -> action -> callback
    error_handler,  \* MygrateCallbacks.error_handler
    last            \* the latest call of MygrateCallbacks.execute and what it did

callbacks_vars == <<registry, error_handler, last>>

\* One position file written through one file object, call by call.
VARIABLES
    disk,           \* the position file as a reader finds it: a File
    fopen,          \* whether the file object is open
    offset,         \* the file object's position in the file
    buffer,         \* the bytes written to the file object and not yet flushed
    wstep,          \* the statement of write_position that is next
    wpos,           \* write_position's pos (<<>> until the first call)
    held,           \* the position the file held when last it was whole
    written         \* the positions written through the file object so far

handle_vars == <<disk, fopen, offset, buffer, wstep, wpos, held, written>>

\* The bulk importer (query.py).
VARIABLES
    requested_tables,   \* main: the tables of the command line, then the ones imported
    ti,                 \* main: position of the for loop in requested_tables
    ipc,                \* where the importer is
    rows,               \* process_table: the rows the cursor has yet to yield
    logged              \* the tables an 'Unhandled exception' was logged for

importer_vars == <<requested_tables, ti, ipc, rows, logged>>

\* The task worker (tasks.py).
VARIABLES
    queue,          \* the tasks the broker holds, oldest first
    runs,           \* how many times the body of the oldest task has been run
    tpc,            \* where the worker is
    errors_log      \* the records appended to the errors log

worker_vars == <<queue, runs, tpc, errors_log>>

\* What the calls on a position file, on a MygrateCallbacks object, the importer
\* and the worker leave alone.
not_handle == <<follower_vars, callbacks_vars, importer_vars, worker_vars>>
not_callbacks == <<follower_vars, handle_vars, importer_vars, worker_vars>>
not_importer == <<follower_vars, handle_vars, worker_vars>>
not_worker == <<follower_vars, callbacks_vars, handle_vars, importer_vars>>

\* What the follower never writes.
others == <<callbacks_vars, handle_vars, importer_vars, worker_vars>>

vars == <<follower_vars, others>>

env == <<journal, index, others>>
proc == <<out, nwritten, nread>>

\* The record of a process_binlog call: the binlog, the position it started from,
\* the journal line its first output line is, how it ended ("running", "eof" for
\* the else branch of the loop completed, "break" for the shutdown flag observed,
\* "exc" for an exception caught), whether p.finish() was called, and the events
\* it handed over.
Pass(path, start, first, res, finish, emitted) ==
    [path |-> path, start |-> start, first |-> first, res |-> res,
     finish |-> finish, emitted |-> emitted]
NoPass == Pass(NoPath, <<>>, 0, "none", FALSE, <<>>)

\* The in-memory state of a process that is not inside process_binlog.
Idle ==
    /\ binlogs = <<>>
    /\ bi = 0
    /\ last_position = <<>>
    /\ current = NoQuery
    /\ out = <<>>
    /\ nwritten = 0
    /\ nread = 0
    /\ pass = NoPass

\* BinlogParser.__init__, and main() up to its while loop.
Fresh ==
    /\ pc = "main"
    /\ done = FALSE
    /\ binlog_mtimes = [b \in Paths |-> 0]
    /\ Idle

\* The same two, of the next state.
IdleNext ==
    /\ binlogs' = <<>>
    /\ bi' = 0
    /\ last_position' = <<>>
    /\ current' = NoQuery
    /\ out' = <<>>
    /\ nwritten' = 0
    /\ nread' = 0
    /\ pass' = NoPass

FreshNext ==
    /\ pc' = "main"
    /\ done' = FALSE
    /\ binlog_mtimes' = [b \in Paths |-> 0]
    /\ IdleNext

\* The follower is not running.
FollowerIdle ==
    /\ journal = [b \in Paths |-> <<>>]
    /\ index = <<>>
    /\ mtime = [b \in Paths |-> 1]
    /\ posfiles = [f \in PosFiles |-> NoFile]
    /\ dispatched = <<>>
    /\ run = 0
    /\ pc = "exited"
    /\ done = FALSE
    /\ binlog_mtimes = [b \in Paths |-> 0]
    /\ Idle

\* MygrateCallbacks.__init__.
CallbacksFresh ==
    /\ registry = EmptyDict
    /\ error_handler = _default_error_handler
    /\ last = NoExecute

\* No file object yet, over the position file a run left (or none).
HandleClosed(file) ==
    /\ disk = file
    /\ fopen = FALSE
    /\ offset = 0
    /\ buffer = <<>>
    /\ wstep = "idle"
    /\ wpos = <<>>
    /\ held = read_position(file)
    /\ written = {}

\* The importer is not run.
ImporterIdle ==
    /\ requested_tables = <<>>
    /\ ti = 0
    /\ ipc = "done"
    /\ rows = 0
    /\ logged = <<>>

\* The worker has no task.
WorkerIdle ==
    /\ queue = <<>>
    /\ runs = 0
    /\ tpc = "idle"
    /\ errors_log = <<>>

\* The other programs are not run.
OthersIdle ==
    /\ CallbacksFresh
    /\ HandleClosed(NoFile)
    /\ ImporterIdle
    /\ WorkerIdle

\* The paths of the index file.
Indexed == {index[i] : i \in 1..Len(index)}

\* The first start of the agent, no position file written yet, over the binlogs
\* of the set J; the index lists the first binlog only.
InitOver(J) ==
    /\ journal \in {[b \in Paths |-> IF b = P1 THEN j ELSE <<>>] : j \in J}
    /\ index = <<P1>>
    /\ OthersIdle
    /\ mtime = [b \in Paths |-> 1]
    /\ posfiles = [f \in PosFiles |-> NoFile]
    /\ dispatched = <<>>
    /\ run = 1
    /\ Fresh

Init == InitOver(FollowerJournals)

\* --------------------------------------------------------------- the signal
\* A handler that flips the flag instead of setting it.
graceful_quit_toggle == done' = ~done

\* main.graceful_quit, the handler of SIGINT and SIGTERM.
graceful_quit == done' = TRUE

Signal ==
    /\ pc \notin {"exited", "crashed", "raised", "skip"}
    /\ graceful_quit
    /\ UNCHANGED <<env, mtime, posfiles, dispatched, run, pc, binlog_mtimes, binlogs,
                   bi, last_position, current, proc, pass>>

\* ---------------------------------------------------------------- main loop
\* BinlogParser.read_index.
read_index == index

\* main(): `while not parser.done` fails and main returns.
MainReturn ==
    /\ pc = "main"
    /\ done
    /\ pc' = "exited"
    /\ UNCHANGED <<env, mtime, posfiles, dispatched, run, done, binlog_mtimes, binlogs,
                   bi, last_position, current, proc, pass>>

\* A main loop that starts a sweep whatever the flag says.
SweepStartAnyway ==
    /\ pc = "main"
    /\ binlogs' = read_index
    /\ bi' = 1
    /\ pc' = "sweep"
    /\ UNCHANGED <<env, mtime, posfiles, dispatched, run, done, binlog_mtimes,
                   last_position, current, proc, pass>>

\* main(): the while test holds; process_all_binlogs reads the index.
SweepStart ==
    /\ pc = "main"
    /\ ~done
    /\ binlogs' = read_index
    /\ bi' = 1
    /\ pc' = "sweep"
    /\ UNCHANGED <<env, mtime, posfiles, dispatched, run, done, binlog_mtimes,
                   last_position, current, proc, pass>>

\* process_all_binlogs: `if not self.done` fails for this binlog.
SweepSkipDone ==
    /\ pc = "sweep"
    /\ bi <= Len(binlogs)
    /\ done
    /\ bi' = bi + 1
    /\ UNCHANGED <<env, mtime, posfiles, dispatched, run, pc, done, binlog_mtimes,
                   binlogs, last_position, current, proc, pass>>

\* A test that also takes a binlog no newer than remembered.
ModifiedOrSame(binlog) == binlog_mtimes[binlog] <= mtime[binlog]

\* process_all_binlogs: whether the binlog changed since the mtime remembered.
Modified(binlog) == binlog_mtimes[binlog] < mtime[binlog]

\* process_all_binlogs: the mtime is remembered; the binlog is not newer.
SweepSkipOld ==
    /\ pc = "sweep"
    /\ bi <= Len(binlogs)
    /\ ~done
    /\ ~Modified(binlogs[bi])
    /\ binlog_mtimes' = [binlog_mtimes EXCEPT ![binlogs[bi]] = mtime[binlogs[bi]]]
    /\ bi' = bi + 1
    /\ UNCHANGED <<env, mtime, posfiles, dispatched, run, pc, done, binlogs,
                   last_position, current, proc, pass>>

\* process_all_binlogs, and process_binlog up to open(pos_file, 'w'): a new
\* QueryParser, the position read, the position file opened for writing.
ProcessBinlogOpen ==
    /\ pc = "sweep"
    /\ bi <= Len(binlogs)
    /\ ~done
    /\ Modified(binlogs[bi])
    /\ LET binlog == binlogs[bi]
           pos_file == build_pos_file(binlog)
           position == read_position(posfiles[pos_file])
       IN /\ binlog_mtimes' = [binlog_mtimes EXCEPT ![binlog] = mtime[binlog]]
          /\ current' = NoQuery
          /\ last_position' = position
          /\ posfiles' = [posfiles EXCEPT ![pos_file] = open_w(@)]
          /\ pass' = Pass(binlog, position, FirstLine(journal[binlog], position),
                          "running", FALSE, <<>>)
    /\ out' = <<>>
    /\ nwritten' = 0
    /\ nread' = 0
    /\ pc' = "opened"
    /\ UNCHANGED <<env, mtime, dispatched, run, done, binlogs, bi>>

\* process_binlog: the position written back, and the mysqlbinlog child started.
ProcessBinlogSpawn ==
    /\ pc = "opened"
    /\ posfiles' = [posfiles EXCEPT
                      ![build_pos_file(binlogs[bi])] = write_position(@, last_position)]
    /\ out' = mysqlbinlog(journal[binlogs[bi]], last_position)
    /\ nwritten' = 0
    /\ nread' = 0
    /\ pc' = "stream"
    /\ UNCHANGED <<env, mtime, dispatched, run, done, binlog_mtimes, binlogs, bi,
                   last_position, current, pass>>

\* The mysqlbinlog child writes its next line; it blocks while the pipe is full.
ChildWrite ==
    /\ pc \in {"stream", "wait"}
    /\ nwritten < Len(out)
    /\ nwritten - nread < PipeCap
    /\ nwritten' = nwritten + 1
    /\ UNCHANGED <<env, mtime, posfiles, dispatched, run, pc, done, binlog_mtimes,
                   binlogs, bi, last_position, current, out, nread, pass>>

\* The mysqlbinlog child has written everything and exited.
ChildExited == nwritten = Len(out)

\* A break that still completes the query in progress, as the end of the stream does.
StreamBreakFlush ==
    /\ pc = "stream"
    /\ nread < nwritten
    /\ done
    /\ nread' = nread + 1
    /\ dispatched' = dispatched \o QueryParser_finish(current).out
    /\ pass' = [pass EXCEPT !.res = "break",
                            !.emitted = @ \o QueryParser_finish(current).out]
    /\ pc' = "wait"
    /\ UNCHANGED <<env, mtime, posfiles, run, done, binlog_mtimes, binlogs,
                   bi, last_position, current, out, nwritten>>

\* process_binlog: a line is read and self.done is set: break.
StreamBreak ==
    /\ pc = "stream"
    /\ nread < nwritten
    /\ done
    /\ nread' = nread + 1
    /\ pass' = [pass EXCEPT !.res = "break"]
    /\ pc' = "wait"
    /\ UNCHANGED <<env, mtime, posfiles, dispatched, run, done, binlog_mtimes, binlogs,
                   bi, last_position, current, out, nwritten>>

\* process_binlog: a `### ` line goes to p.parse; an exception ends the loop.
StreamParse ==
    /\ pc = "stream"
    /\ nread < nwritten
    /\ ~done
    /\ out[nread + 1].k \notin {"at", "other"}
    /\ LET r == QueryParser_parse(current, out[nread + 1],
                                  Src(pass.path, pass.first + nread))
       IN /\ current' = r.q
          /\ dispatched' = dispatched \o r.out
          /\ pass' = [pass EXCEPT !.emitted = @ \o r.out,
                                  !.res = IF r.err # "" THEN "exc" ELSE @]
          /\ pc' = IF r.err # "" THEN "wait" ELSE "stream"
    /\ nread' = nread + 1
    /\ UNCHANGED <<env, mtime, posfiles, run, done, binlog_mtimes, binlogs, bi,
                   last_position, out, nwritten>>

\* A `# at ` line whose position is kept in memory and not written.
StreamPositionKept ==
    /\ pc = "stream"
    /\ nread < nwritten
    /\ ~done
    /\ out[nread + 1].k = "at"
    /\ last_position' = PositionText(out[nread + 1])
    /\ nread' = nread + 1
    /\ UNCHANGED <<env, mtime, posfiles, dispatched, run, pc, done, binlog_mtimes,
                   binlogs, bi, current, out, nwritten, pass>>

\* process_binlog: a `# at ` line is the new position, written through at once.
StreamPosition ==
    /\ pc = "stream"
    /\ nread < nwritten
    /\ ~done
    /\ out[nread + 1].k = "at"
    /\ last_position' = PositionText(out[nread + 1])
    /\ posfiles' = [posfiles EXCEPT
                      ![build_pos_file(binlogs[bi])] =
                          write_position(@, PositionText(out[nread + 1]))]
    /\ nread' = nread + 1
    /\ UNCHANGED <<env, mtime, dispatched, run, pc, done, binlog_mtimes, binlogs, bi,
                   current, out, nwritten, pass>>

\* process_binlog: any other line is skipped.
StreamSkip ==
    /\ pc = "stream"
    /\ nread < nwritten
    /\ ~done
    /\ out[nread + 1].k = "other"
    /\ nread' = nread + 1
    /\ UNCHANGED <<env, mtime, posfiles, dispatched, run, pc, done, binlog_mtimes,
                   binlogs, bi, last_position, current, out, nwritten, pass>>

\* process_binlog: the end of the stream, the else branch of the loop: p.finish().
StreamEnd ==
    /\ pc = "stream"
    /\ nread = Len(out)
    /\ ChildExited
    /\ LET r == QueryParser_finish(current)
       IN /\ current' = r.q
          /\ dispatched' = dispatched \o r.out
          /\ pass' = [pass EXCEPT !.emitted = @ \o r.out,
                                  !.finish = TRUE,
                                  !.res = IF r.err # "" THEN "exc" ELSE "eof"]
    /\ pc' = "wait"
    /\ UNCHANGED <<env, mtime, posfiles, run, done, binlog_mtimes, binlogs, bi,
                   last_position, proc>>

\* process_binlog, finally: writepos.close() and proc.wait() return once the child
\* has exited; the for loop of process_all_binlogs goes on.
ProcessBinlogWait ==
    /\ pc = "wait"
    /\ ChildExited
    /\ bi' = bi + 1
    /\ pc' = "sweep"
    /\ last_position' = <<>>
    /\ current' = NoQuery
    /\ out' = <<>>
    /\ nwritten' = 0
    /\ nread' = 0
    /\ pass' = NoPass
    /\ UNCHANGED <<env, mtime, posfiles, dispatched, run, done, binlog_mtimes, binlogs>>

\* process_all_binlogs returns; main() sleeps unless the flag is set.
SweepEnd ==
    /\ pc = "sweep"
    /\ bi > Len(binlogs)
    /\ pc' = IF done THEN "main" ELSE "sleep"
    /\ binlogs' = <<>>
    /\ bi' = 0
    /\ UNCHANGED <<env, mtime, posfiles, dispatched, run, done, binlog_mtimes,
                   last_position, current, proc, pass>>

\* main(): sleep(tracking_delay) returns.
Sleep ==
    /\ pc = "sleep"
    /\ pc' = "main"
    /\ UNCHANGED <<env, mtime, posfiles, dispatched, run, done, binlog_mtimes, binlogs,
                   bi, last_position, current, proc, pass>>

\* -------------------------------------------------------------- environment
\* MySQL writes to a binlog: its modification time grows.  The agent reads the
\* modification times only in process_all_binlogs, so a write at any moment shows
\* as a write before the next sweep starts.
Touch ==
    \E b \in Indexed :
        /\ pc = "sleep"
        /\ mtime[b] < MaxMtime
        /\ mtime' = [mtime EXCEPT ![b] = @ + 1]
        /\ UNCHANGED <<env, posfiles, dispatched, run, pc, done, binlog_mtimes, binlogs,
                       bi, last_position, current, proc, pass>>

\* The agent process dies (kill -9, power loss); files and queued tasks remain.
Crash ==
    /\ pc \notin {"exited", "crashed"}
    /\ pc' = "crashed"
    /\ done' = FALSE
    /\ binlog_mtimes' = [b \in Paths |-> 0]
    /\ IdleNext
    /\ UNCHANGED <<env, mtime, posfiles, dispatched, run>>

\* The agent is started again: a new process.
Restart ==
    /\ pc \in {"exited", "crashed", "raised"}
    /\ run < MaxRuns
    /\ run' = run + 1
    /\ FreshNext
    /\ UNCHANGED <<env, mtime, posfiles, dispatched>>

\* One run of the agent: no crash, no restart, the binlogs left alone.
NextRun ==
    \/ Signal
    \/ MainReturn
    \/ SweepStart
    \/ SweepSkipDone
    \/ SweepSkipOld
    \/ ProcessBinlogOpen
    \/ ProcessBinlogSpawn
    \/ ChildWrite
    \/ StreamBreak
    \/ StreamParse
    \/ StreamPosition
    \/ StreamSkip
    \/ StreamEnd
    \/ ProcessBinlogWait
    \/ SweepEnd
    \/ Sleep

Next ==
    \/ NextRun
    \/ Touch
    \/ Crash
    \/ Restart

\* The follower across crashes, restarts and binlog writes.
Spec == Init /\ [][Next]_vars

\* One run of the agent over every shape of event.
InitRun == InitOver(Journals)
SpecRun == InitRun /\ [][NextRun]_vars

\* ------------------------------------------- an index of two binlogs, failures
\* The bodies the sweep over two binlogs is checked against.
SweepBodies == {InsertBody, LongBody, NoRowsBody}
SweepJournals == JournalsOf(SweepBodies)

\* The binlogs of the index idx with contents of J; no other binlog exists.
IndexedJournals(idx, J) ==
    LET listed == {idx[i] : i \in 1..Len(idx)}
    IN {[b \in Paths |-> IF b \in listed THEN j[b] ELSE <<>>] : j \in [listed -> J]}

\* The byte length of a binlog (os.path.getsize): where its next block would start.
SizeOf(lines) == OffsetOf(Cardinality({i \in 1..Len(lines) : lines[i].k = "at"}) + 1)

\* process_all_binlogs: os.path.getmtime(binlog) raises OSError (the binlog was
\* purged after the index was read).  No try encloses the call, nor the call of
\* process_all_binlogs in main(): the process ends with a traceback.
SweepGetmtimeRaises ==
    /\ pc = "sweep"
    /\ bi <= Len(binlogs)
    /\ ~done
    /\ pc' = "raised"
    /\ UNCHANGED <<env, mtime, posfiles, dispatched, run, done, binlog_mtimes, binlogs,
                   bi, last_position, current, proc, pass>>

\* process_binlog: read_position raises an IOError other than ENOENT, or
\* open(pos_file, 'w') raises IOError (the tracking directory is missing or not
\* writable), before the try statement; the position file is as it was.
ProcessBinlogOpenRaises ==
    /\ pc = "sweep"
    /\ bi <= Len(binlogs)
    /\ ~done
    /\ Modified(binlogs[bi])
    /\ binlog_mtimes' = [binlog_mtimes EXCEPT ![binlogs[bi]] = mtime[binlogs[bi]]]
    /\ pc' = "raised"
    /\ UNCHANGED <<env, mtime, posfiles, dispatched, run, done, binlogs, bi,
                   last_position, current, proc, pass>>

\* process_binlog: the position is written back, then subprocess.Popen raises
\* OSError (no mysqlbinlog on the PATH, no process to fork), before the try
\* statement.
ProcessBinlogPopenRaises ==
    /\ pc = "opened"
    /\ posfiles' = [posfiles EXCEPT
                      ![build_pos_file(binlogs[bi])] = write_position(@, last_position)]
    /\ pc' = "raised"
    /\ UNCHANGED <<env, mtime, dispatched, run, done, binlog_mtimes, binlogs, bi,
                   last_position, current, proc, pass>>

\* skip_existing, the mygrate-skip command, up to its for loop: a BinlogParser
\* of its own and the index read.
SkipExistingStart ==
    /\ pc \in {"exited", "crashed", "raised"}
    /\ pc' = "skip"
    /\ done' = FALSE
    /\ binlog_mtimes' = [b \in Paths |-> 0]
    /\ binlogs' = read_index
    /\ bi' = 1
    /\ UNCHANGED <<env, mtime, posfiles, dispatched, run, last_position, current,
                   proc, pass>>

\* BinlogParser.set_binlogpos_at_end for the next binlog of the index: the
\* position file opened for writing and str(os.path.getsize(binlog)) written.
set_binlogpos_at_end ==
    /\ pc = "skip"
    /\ bi <= Len(binlogs)
    /\ posfiles' = [posfiles EXCEPT
                      ![build_pos_file(binlogs[bi])] =
                          write_position(open_w(@), DecStr(SizeOf(journal[binlogs[bi]])))]
    /\ bi' = bi + 1
    /\ UNCHANGED <<env, mtime, dispatched, run, pc, done, binlog_mtimes, binlogs,
                   last_position, current, proc, pass>>

\* skip_existing returns.
SkipExistingReturn ==
    /\ pc = "skip"
    /\ bi > Len(binlogs)
    /\ pc' = "exited"
    /\ binlogs' = <<>>
    /\ bi' = 0
    /\ UNCHANGED <<env, mtime, posfiles, dispatched, run, done, binlog_mtimes,
                   last_position, current, proc, pass>>

\* Nothing started yet; the index lists both binlogs.
InitSweep ==
    /\ journal \in IndexedJournals(<<P1, P2>>, SweepJournals)
    /\ index = <<P1, P2>>
    /\ mtime = [b \in Paths |-> 1]
    /\ posfiles = [f \in PosFiles |-> NoFile]
    /\ dispatched = <<>>
    /\ run = 0
    /\ pc = "exited"
    /\ done = FALSE
    /\ binlog_mtimes = [b \in Paths |-> 0]
    /\ Idle
    /\ OthersIdle

NextSweep ==
    \/ NextRun
    \/ Restart
    \/ SweepGetmtimeRaises
    \/ ProcessBinlogOpenRaises
    \/ ProcessBinlogPopenRaises
    \/ SkipExistingStart
    \/ set_binlogpos_at_end
    \/ SkipExistingReturn

\* The follower and mygrate-skip over two binlogs that do not change, with the
\* failures of the system calls.
SpecSweep == InitSweep /\ [][NextSweep]_vars

\* ------------------------------------------------ the position file, by call
\* The positions a binlog of at most MaxBlocks blocks gives rise to: 0, the
\* offsets of its blocks, and its size.
Positions == {DecStr(0)} \cup {DecStr(OffsetOf(i)) : i \in 1..(MaxBlocks + 1)}

\* The content of a file after ftruncate(size): cut, or padded with NUL (-1).
Truncated(data, size) ==
    [i \in 1..size |-> IF i <= Len(data) THEN data[i] ELSE -1]

\* The content of a file after bytes are written at an offset.
WrittenAt(data, at, bytes) ==
    LET size == IF Len(data) > at + Len(bytes) THEN Len(data) ELSE at + Len(bytes)
    IN [i \in 1..size |->
          IF i > at /\ i <= at + Len(bytes) THEN bytes[i - at]
          ELSE IF i <= Len(data) THEN data[i] ELSE -1]

\* open(pos_file, 'w') in process_binlog and set_binlogpos_at_end: the file is
\* created or cut to nothing.
HandleOpen ==
    /\ ~fopen
    /\ fopen' = TRUE
    /\ disk' = open_w(disk)
    /\ offset' = 0
    /\ buffer' = <<>>
    /\ wstep' = "idle"
    /\ wpos' = <<>>
    /\ held' = read_position(disk)
    /\ written' = {}
    /\ UNCHANGED <<not_handle>>

\* write_position(f, pos) is called.
WritePositionCall ==
    \E pos \in Positions :
        /\ fopen
        /\ wstep \in {"idle", "returned"}
        /\ wpos' = pos
        /\ wstep' = "seek"
        /\ UNCHANGED <<not_handle, disk, fopen, offset, buffer, held, written>>

\* f.seek(0, os.SEEK_SET).
WriteSeek ==
    /\ wstep = "seek"
    /\ disk' = File(TRUE, WrittenAt(disk.data, offset, buffer))
    /\ buffer' = <<>>
    /\ offset' = 0
    /\ wstep' = "truncate"
    /\ UNCHANGED <<not_handle, fopen, wpos, held, written>>

\* A truncate that leaves the file as it is.
WriteTruncateNot ==
    /\ wstep = "truncate"
    /\ wstep' = "write"
    /\ UNCHANGED <<not_handle, disk, fopen, offset, buffer, wpos, held, written>>

\* f.truncate(): the file is cut at the file object's position.
WriteTruncate ==
    /\ wstep = "truncate"
    /\ disk' = File(TRUE, Truncated(WrittenAt(disk.data, offset, buffer), offset))
    /\ buffer' = <<>>
    /\ wstep' = "write"
    /\ UNCHANGED <<not_handle, fopen, offset, wpos, held, written>>

\* f.write(pos): the bytes go to the file object's buffer.
WriteWrite ==
    /\ wstep = "write"
    /\ buffer' = buffer \o wpos
    /\ wstep' = "flush"
    /\ UNCHANGED <<not_handle, disk, fopen, offset, wpos, held, written>>

\* f.flush(): the buffer reaches the file; write_position returns.
WriteFlush ==
    /\ wstep = "flush"
    /\ disk' = File(TRUE, WrittenAt(disk.data, offset, buffer))
    /\ offset' = offset + Len(buffer)
    /\ buffer' = <<>>
    /\ wstep' = "returned"
    /\ held' = wpos
    /\ written' = written \cup {wpos}
    /\ UNCHANGED <<not_handle, fopen, wpos>>

\* writepos.close(), or the end of the with statement.
HandleClose ==
    /\ fopen
    /\ wstep \in {"idle", "returned"}
    /\ fopen' = FALSE
    /\ wstep' = "idle"
    /\ UNCHANGED <<not_handle, disk, offset, buffer, wpos, held, written>>

\* The position file of an earlier run, or none.
InitCursor ==
    /\ FollowerIdle
    /\ CallbacksFresh
    /\ ImporterIdle
    /\ WorkerIdle
    /\ \E file \in {NoFile} \cup {File(TRUE, p) : p \in Positions} : HandleClosed(file)

NextCursor ==
    \/ HandleOpen
    \/ WritePositionCall
    \/ WriteSeek
    \/ WriteTruncate
    \/ WriteWrite
    \/ WriteFlush
    \/ HandleClose

\* A position file opened, written any number of times, closed, opened again.
SpecCursor == InitCursor /\ [][NextCursor]_vars

\* ------------------------------------------------- a program using callbacks
\* The entry point calls callbacks.register(table, action, callback).
Register ==
    \E table \in TableNames, action \in Actions, callback \in Callbacks :
        /\ registry' = register(registry, table, action, callback)
        /\ UNCHANGED <<not_callbacks, error_handler, last>>

\* The entry point calls callbacks.register_error_handler(handler).
RegisterErrorHandler ==
    \E handler \in ErrorHandlers \ {_default_error_handler} :
        /\ error_handler' = handler
        /\ UNCHANGED <<not_callbacks, registry, last>>

\* A caller runs callbacks.execute(table, action, *args, **kwargs).
Execute ==
    \E table \in TableNames, action \in Actions, a \in Arguments :
        LET r == execute(registry, error_handler, table, action, a.args, a.kwargs)
        IN /\ registry' = r.callbacks
           /\ last' = Executed(table, action, a.args, a.kwargs, r)
           /\ UNCHANGED <<not_callbacks, error_handler>>

InitCallbacks == FollowerIdle /\ OthersIdle

NextCallbacks ==
    \/ Register
    \/ RegisterErrorHandler
    \/ Execute

\* A MygrateCallbacks object under any sequence of calls.
SpecCallbacks == InitCallbacks /\ [][NextCallbacks]_vars

\* ------------------------------------------------------- the bulk importer
\* Tables named on the command line at most, and rows a table holds at most.
MaxTables == 2
MaxRows == 2

\* What the command line can name: the tables, and a name without a database.
TableIds == TableNames \cup {"t3"}

\* full_table.split('.').
split(full_table) ==
    CASE full_table = "db1.t1" -> <<"db1", "t1">>
      [] full_table = "db2.t2" -> <<"db2", "t2">>
      [] OTHER -> <<full_table>>

\* The orders in which a dict yields its keys.
Orderings(S) ==
    {o \in [1..Cardinality(S) -> S] : \A i, j \in 1..Cardinality(S) : o[i] = o[j] => i = j}

\* main() of query.py up to its for loop: no table named means every registered
\* table.
ImportMain ==
    /\ ipc = "main"
    /\ IF requested_tables = <<>>
       THEN requested_tables' \in Orderings(get_registered_tables(registry))
       ELSE UNCHANGED requested_tables
    /\ ti' = 1
    /\ ipc' = "table"
    /\ UNCHANGED <<not_importer, callbacks_vars, rows, logged>>

\* process_table: `db, table = full_table.split('.')` raises ValueError before
\* the try statement; main() has no try: the importer ends with a traceback.
ProcessTableSplitRaises ==
    /\ ipc = "table"
    /\ ti <= Len(requested_tables)
    /\ Len(split(requested_tables[ti])) # 2
    /\ ipc' = "raised"
    /\ UNCHANGED <<not_importer, callbacks_vars, requested_tables, ti, rows, logged>>

\* process_table: get_connection raises (MySQLdb.connect: server down, unknown
\* database), before the try statement.
ProcessTableConnectRaises ==
    /\ ipc = "table"
    /\ ti <= Len(requested_tables)
    /\ Len(split(requested_tables[ti])) = 2
    /\ ipc' = "raised"
    /\ UNCHANGED <<not_importer, callbacks_vars, requested_tables, ti, rows, logged>>

\* process_table: the connection is made and cur.execute(sql) returns.
ProcessTableQuery ==
    /\ ipc = "table"
    /\ ti <= Len(requested_tables)
    /\ Len(split(requested_tables[ti])) = 2
    /\ rows' \in 0..MaxRows
    /\ ipc' = "rows"
    /\ UNCHANGED <<not_importer, callbacks_vars, requested_tables, ti, logged>>

\* process_table: cur.execute(sql) raises (no such table); the except clause
\* logs it, the finally clause closes, main() goes on to the next table.
ProcessTableQueryRaises ==
    /\ ipc = "table"
    /\ ti <= Len(requested_tables)
    /\ Len(split(requested_tables[ti])) = 2
    /\ logged' = Append(logged, requested_tables[ti])
    /\ ti' = ti + 1
    /\ UNCHANGED <<not_importer, callbacks_vars, requested_tables, ipc, rows>>

\* process_table: run_callback for the next row; an exception that leaves
\* callbacks.execute is logged and ends the table.
run_callback ==
    /\ ipc = "rows"
    /\ rows > 0
    /\ LET table == requested_tables[ti]
           r == execute(registry, error_handler, table, "INSERT", <<"cols">>, EmptyMap)
       IN /\ registry' = r.callbacks
          /\ last' = Executed(table, "INSERT", <<"cols">>, EmptyMap, r)
          /\ IF r.result = "raises"
             THEN /\ logged' = Append(logged, table)
                  /\ rows' = 0
                  /\ ti' = ti + 1
                  /\ ipc' = "table"
             ELSE /\ rows' = rows - 1
                  /\ UNCHANGED <<logged, ti, ipc>>
    /\ UNCHANGED <<not_importer, error_handler, requested_tables>>

\* process_table: the cursor has no more rows; the finally clause closes.
ProcessTableEnd ==
    /\ ipc = "rows"
    /\ rows = 0
    /\ ti' = ti + 1
    /\ ipc' = "table"
    /\ UNCHANGED <<not_importer, callbacks_vars, requested_tables, rows, logged>>

\* main(): the for loop is over.
ImportReturn ==
    /\ ipc = "table"
    /\ ti > Len(requested_tables)
    /\ ipc' = "done"
    /\ UNCHANGED <<not_importer, callbacks_vars, requested_tables, ti, rows, logged>>

\* The importer started with any command line, after the entry point registered
\* INSERT callbacks for some tables and maybe an error handler.
InitImport ==
    /\ FollowerIdle
    /\ HandleClosed(NoFile)
    /\ WorkerIdle
    /\ \E T \in SUBSET TableNames :
          registry \in [T -> [{"INSERT"} -> Callbacks]]
    /\ error_handler \in ErrorHandlers
    /\ last = NoExecute
    /\ requested_tables \in UNION {[1..n -> TableIds] : n \in 0..MaxTables}
    /\ ti = 0
    /\ ipc = "main"
    /\ rows = 0
    /\ logged = <<>>

NextImport ==
    \/ ImportMain
    \/ ProcessTableSplitRaises
    \/ ProcessTableConnectRaises
    \/ ProcessTableQuery
    \/ ProcessTableQueryRaises
    \/ run_callback
    \/ ProcessTableEnd
    \/ ImportReturn

\* One run of the importer.
SpecImport == InitImport /\ [][NextImport]_vars

\* ------------------------------------------------------------ the task worker
\* Tasks the broker holds at most.
MaxTasks == 2

\* cfg.get_retry_settings() without a [celery] section: max_retries and
\* retry_delay (seconds).
max_retries == 3
retry_delay == 180

\* task_settings, the options of the three tasks.
task_settings ==
    [base |-> "LoggedTask", max_retries |-> max_retries, retry_delay |-> retry_delay,
     ignore_result |-> TRUE]

\* A task message: tasks.INSERT/UPDATE/DELETE.delay(table, ...).
Tasks == {[action |-> a, table |-> t] : a \in Actions, t \in TableNames}

\* The worker takes the oldest task and runs its body,
\* callbacks[table].INSERT(cols) or its like.
TaskRun ==
    /\ tpc = "idle"
    /\ queue # <<>>
    /\ runs' = runs + 1
    /\ tpc' = "body"
    /\ UNCHANGED <<not_worker, queue, errors_log>>

\* The body returns: the task is done, its result ignored.
TaskReturns ==
    /\ tpc = "body"
    /\ queue' = Tail(queue)
    /\ runs' = 0
    /\ tpc' = "idle"
    /\ UNCHANGED <<not_worker, errors_log>>

\* The body raises (the handler, or callbacks[table]).  No task calls
\* self.retry(): the task has failed, and LoggedTask.on_failure appends a
\* record to the errors log.  runs is bookkeeping of the model.
on_failure ==
    /\ tpc = "body"
    /\ errors_log' = Append(errors_log,
                            [action |-> Head(queue).action, args |-> <<Head(queue).table>>,
                             runs |-> runs])
    /\ queue' = Tail(queue)
    /\ runs' = 0
    /\ tpc' = "idle"
    /\ UNCHANGED not_worker

InitTasks ==
    /\ FollowerIdle
    /\ CallbacksFresh
    /\ HandleClosed(NoFile)
    /\ ImporterIdle
    /\ queue \in UNION {[1..n -> Tasks] : n \in 0..MaxTasks}
    /\ runs = 0
    /\ tpc = "idle"
    /\ errors_log = <<>>

NextTasks ==
    \/ TaskRun
    \/ TaskReturns
    \/ on_failure

\* A worker through the tasks of the broker.
SpecTasks == InitTasks /\ [][NextTasks]_vars

\* ------------------------------------------------------- what the claims read
\* The persisted cursor of a binlog, as a byte offset.
Cursor(binlog) == DecVal(read_position(posfiles[build_pos_file(binlog)]))

\* The header lines of events of tables with a callback.
TrackedHeaders(lines) ==
    {i \in 1..Len(lines) :
        lines[i].k = "hdr" /\ _parse_initial_line(lines[i]) \in callbacks}

\* The byte offset of the `# at` line before line i (0 when there is none).
MarkerBefore(lines, i) ==
    LET before == {j \in 1..(i - 1) : lines[j].k = "at"}
    IN IF before = {} THEN 0
       ELSE lines[CHOOSE j \in before : \A k \in before : k <= j].n

\* The position of the last `# at` line of lines, or start when there is none.
FinalMarker(lines, start) ==
    IF \A j \in 1..Len(lines) : lines[j].k # "at" THEN start
    ELSE DecStr(MarkerBefore(lines, Len(lines) + 1))

\* The journal lines of the events handed to the queue.
SrcOf(events) == {events[k].src : k \in 1..Len(events)}

\* C1: no tracked event is lost across a stop and a restart: once a pass over a
\* journal of well-formed events reaches the end of the stream, in whatever run,
\* every tracked event of the journal has been handed to the queue at least once.
C1_NoEventLost ==
    (pass.res = "eof" /\ journal[pass.path] \in CleanJournals) =>
        \A i \in TrackedHeaders(journal[pass.path]) :
            Src(pass.path, i) \in SrcOf(dispatched)

\* C2: the persisted cursor of a journal is never past the `# at` marker of the
\* event most recently emitted from it.
C2_CursorNotPastEmitted ==
    dispatched # <<>> =>
        LET e == dispatched[Len(dispatched)]
        IN Cursor(e.src.path) <= MarkerBefore(journal[e.src.path], e.src.line)

\* C3: after a journal is processed to the end of the stream, its cursor file holds
\* exactly the position of the final `# at` marker of the decoder output (the
\* position the pass started from when there was no marker) and finish() was called;
\* when finish() returned, the parser holds no event and the last tracked event of
\* the output is the last one emitted.
C3_CursorAtFinalMarker ==
    /\ pass.res = "eof" => pass.finish
    /\ pass.finish =>
          posfiles[build_pos_file(pass.path)] = File(TRUE, FinalMarker(out, pass.start))
    /\ pass.res = "eof" =>
          /\ current = NoQuery
          /\ \A i \in TrackedHeaders(journal[pass.path]) :
                (i >= pass.first /\ \A j \in TrackedHeaders(journal[pass.path]) : j <= i)
                    => /\ pass.emitted # <<>>
                       /\ pass.emitted[Len(pass.emitted)].src = Src(pass.path, i)

C3_Witness ==
    /\ pass.res = "eof"
    /\ pass.emitted # <<>>
    /\ Cursor(pass.path) > DecVal(pass.start)
    /\ Len(posfiles[build_pos_file(pass.path)].data) > 1

\* C4: in one pass over a journal to the clean end of the stream, the tracked events
\* are emitted in the order of their header lines, each exactly once, with the type
\* and the table of its header.
C4_InOrderExactlyOnce ==
    pass.res = "eof" =>
        LET lines == journal[pass.path]
            heads == {i \in TrackedHeaders(lines) : i >= pass.first}
        IN /\ Len(pass.emitted) = Cardinality(heads)
           /\ \A k \in 1..Len(pass.emitted) :
                 /\ pass.emitted[k].src.path = pass.path
                 /\ pass.emitted[k].src.line \in heads
                 /\ pass.emitted[k].type = lines[pass.emitted[k].src.line].word
                 /\ pass.emitted[k].table = _parse_initial_line(lines[pass.emitted[k].src.line])
                 /\ k > 1 => pass.emitted[k - 1].src.line < pass.emitted[k].src.line

C4_Witness ==
    /\ pass.res = "eof"
    /\ Len(pass.emitted) = 2
    /\ pass.emitted[1].type = "UPDATE"
    /\ pass.emitted[2].type = "DELETE"

\* The step that reads a line while the flag is set: it breaks out of the loop.
C5_Observed ==
    (pc = "stream" /\ done /\ nread' = nread + 1) =>
        /\ pc' = "wait"
        /\ pass'.res = "break"
        /\ dispatched' = dispatched
        /\ posfiles' = posfiles

\* The state the break leaves.
C5_Stopped ==
    pass.res = "break" =>
        /\ pc = "wait"
        /\ ~pass.finish
        /\ current # NoQuery => current.src \notin SrcOf(pass.emitted)
        /\ (nread = 2 /\ out[1].k = "at") =>
              /\ posfiles[build_pos_file(pass.path)] = File(TRUE, PositionText(out[1]))
              /\ pass.emitted = <<>>

\* Nothing is read, emitted or written after the break.
C5_AfterStop ==
    pass.res = "break" =>
        /\ nread' = nread \/ pass' = NoPass
        /\ dispatched' = dispatched
        /\ posfiles' = posfiles

\* C5: when the shutdown flag is observed while a journal is streamed, reading
\* stops, finish() is not called and the event in progress is not emitted by this
\* pass; nothing is emitted and no position is written by that step or after it.  When
\* the flag is observed with only the first `# at` line handled, the cursor holds
\* that marker and no event was emitted.
C5_ShutdownDropsPartial ==
    [](C5_Stopped) /\ [][C5_Observed /\ C5_AfterStop]_vars

C5_Witness ==
    /\ pass.res = "break"
    /\ current # NoQuery
    /\ current.SET # <<>>

\* C6: once the shutdown flag is set main() returns; the wait for the decoder child
\* completes: the child is never left blocked writing to a pipe that nobody reads
\* while the agent, having observed the flag, waits for it to exit.
C6_ChildNeverLeftBlocked ==
    ~(/\ pass.res = "break"
      /\ pc = "wait"
      /\ ~ChildExited
      /\ nwritten - nread >= PipeCap)

\* A step of a living process keeps a set flag set.
C7_StaysSet == (done /\ run' = run /\ pc' # "crashed") => done'

\* A new process starts with the flag unset.
C7_StartsUnset == (run' # run) => ~done'

\* C7: the shutdown flag starts unset in every process, and once set it stays set
\* for as long as the process lives.
C7_FlagMonotonic == ~done /\ [][C7_StaysSet /\ C7_StartsUnset]_vars

C7_Witness == done /\ pc = "exited"

\* C8: an event marked invalid is dropped when it completes: no invalid event is
\* ever handed to the task queue.
C8_InvalidDropped == \A k \in 1..Len(dispatched) : ~dispatched[k].invalid

\* The names of a column vector.
NamesOf(table) == {column_names[table][i] : i \in 1..Len(column_names[table])}

\* C9: every column map of every emitted event (the set map of an INSERT, the where
\* and set maps of an UPDATE, the where map of a DELETE) has exactly the names of
\* the column vector of its table as keys.
C9_KeysEqualColumns ==
    \A k \in 1..Len(dispatched) :
        LET e == dispatched[k]
        IN /\ e.type \in {"INSERT", "UPDATE"} => DOMAIN e.set = NamesOf(e.table)
           /\ e.type \in {"UPDATE", "DELETE"} => DOMAIN e.where = NamesOf(e.table)

\* Whether line n of lines is the header of an event of a table without a callback,
\* or a line after such a header with no header in between.
InUntracked(lines, n) ==
    \E h \in 1..n :
        /\ lines[h].k = "hdr"
        /\ lines[h].ok
        /\ _parse_initial_line(lines[h]) \notin callbacks
        /\ \A j \in (h + 1)..n : lines[j].k # "hdr"

C11_UnregisteredIsNoOp ==
    [][(last' # last /\ ~Registered(registry, last'.table, last'.action)) =>
          /\ last'.calls = <<>>
          /\ last'.result = "returns"
          /\ registry' = registry
          /\ error_handler' = error_handler]_vars

\* An unregistered action was executed for a table that has other actions.
C11_Witness ==
    /\ last.result = "returns"
    /\ last.calls = <<>>
    /\ last.table \in DOMAIN registry
    /\ ~Registered(registry, last.table, last.action)
    /\ \E t \in DOMAIN registry : t # last.table /\ last.action \in DOMAIN registry[t]

\* C12: when the registered callback raises, the installed error handler is
\* called exactly once, after the callback, with (table, action, args, kwargs);
\* under the default handler the callback's exception leaves execute, and under
\* an installed handler that returns, execute returns.
C12_ErrorHandlerOnce ==
    [][(/\ last' # last
        /\ Registered(registry, last'.table, last'.action)
        /\ registry[last'.table][last'.action] = "cb_raises") =>
          /\ last'.calls =
                <<Call("cb_raises", last'.table, None, last'.args, last'.kwargs),
                  Call(error_handler, last'.table, last'.action, last'.args,
                       last'.kwargs)>>
          /\ error_handler = _default_error_handler =>
                (last'.result = "raises" /\ last'.exc = "callback")
          /\ error_handler = "eh_returns" => last'.result = "returns"]_vars

\* A callback raised under an installed handler that returns, and under the
\* default handler.
C12_Witness ==
    /\ Len(last.calls) = 2
    /\ last.calls[2].args # <<>>
    /\ \/ last.calls[2].fn = "eh_returns" /\ last.result = "returns"
       \/ last.calls[2].fn = _default_error_handler /\ last.exc = "callback"

\* C13: a failure on one binlog never aborts the sweep: no exception of the
\* mtime check, of the position read or open, of the start of mysqlbinlog, of
\* the streaming or of the completion of an event leaves process_all_binlogs.
C13_SweepSurvivesFailure == pc # "raised"

\* The position a pass over the binlog starts from: the one the pass in progress
\* read, or else the one in the position file.
StartOf(binlog) ==
    IF pass # NoPass /\ pass.path = binlog THEN pass.start
    ELSE read_position(posfiles[build_pos_file(binlog)])

\* Every binlog of the index has its position at its end, as mygrate-skip
\* leaves it.
AllAtEnd == \A b \in Indexed : StartOf(b) = DecStr(SizeOf(journal[b]))

\* C14: over binlogs that do not change and whose positions are at the end, a
\* further sweep or a further run of the agent hands no event to the queue and
\* leaves every position at the end.
C14_AtEndEmitsNothing ==
    [][AllAtEnd => (dispatched' = dispatched /\ AllAtEnd')]_vars

\* The second run of the agent after mygrate-skip has streamed the last binlog
\* of the index to its end, both binlogs holding tracked events, none emitted.
C14_Witness ==
    /\ run = 2
    /\ pass.path = P2
    /\ pass.res = "eof"
    /\ AllAtEnd
    /\ \A b \in Indexed : TrackedHeaders(journal[b]) # {}
    /\ dispatched = <<>>

\* C15: at every instant a reader of the position file finds the position it
\* held before the write in progress or the position being written (before any
\* write through a new file object: the position it held when it was opened).
C15_ReaderSeesOldOrNew ==
    fopen => read_position(disk) \in {held, IF wpos = <<>> THEN held ELSE wpos}

\* C16: when write_position(f, pos) has returned the file holds pos and nothing
\* else, and no content the call gives the file on the way is longer than pos,
\* whatever was written through the file object before.
C16_ExactlyLatestPosition ==
    /\ wstep = "returned" => disk = File(TRUE, wpos)
    /\ wstep \in {"write", "flush"} => Len(disk.data) <= Len(wpos)

\* A shorter position was written after a longer one through the same file
\* object.
C16_Witness ==
    /\ wstep = "returned"
    /\ wpos = DecStr(OffsetOf(1))
    /\ disk.data = wpos
    /\ DecStr(OffsetOf(MaxBlocks + 1)) \in written

\* C17: in the bulk importer the failure of one table ends that table only: no
\* exception of a table (its id, its connection, its query, a row's callback)
\* leaves process_table and ends the run.
C17_TableFailureIsLocal == ipc # "raised"

\* C18: a failure is recorded in the errors log only after the task was
\* retried max_retries times: every record is of a task whose body was run
\* max_retries + 1 times.
C18_RecordedAfterRetries ==
    \A i \in 1..Len(errors_log) : errors_log[i].runs = task_settings.max_retries + 1

\* A step that deals with the binlog whose turn it is in the sweep: it is
\* passed over, or process_binlog is entered.
TurnTaken ==
    /\ pc = "sweep"
    /\ bi <= Len(binlogs)
    /\ bi' = bi + 1 \/ pc' = "opened"

\* C19, as stated: in every sweep a binlog of the index is processed if and only
\* if its mtime is greater than the remembered one, and the remembered one is
\* set to the current one, processed or not.
C19_ProcessedIffNewer ==
    [][TurnTaken =>
          /\ pc' = "opened" <=> binlog_mtimes[binlogs[bi]] < mtime[binlogs[bi]]
          /\ binlog_mtimes'[binlogs[bi]] = mtime[binlogs[bi]]]_vars

\* C19, amended: that holds of the binlogs whose turn comes while the shutdown
\* flag is unset; from the moment the flag is set a binlog is neither processed
\* nor is its mtime remembered.
C19_ProcessedIffNewerUnlessDone ==
    [][TurnTaken =>
          IF done
          THEN pc' # "opened" /\ binlog_mtimes' = binlog_mtimes
          ELSE /\ pc' = "opened" <=> binlog_mtimes[binlogs[bi]] < mtime[binlogs[bi]]
               /\ binlog_mtimes'[binlogs[bi]] = mtime[binlogs[bi]]]_vars

\* A binlog written to after an earlier sweep of the same run is processed
\* again, its new mtime remembered.
C19_Witness ==
    /\ pc = "opened"
    /\ run = 1
    /\ mtime[binlogs[bi]] = MaxMtime
    /\ binlog_mtimes[binlogs[bi]] = MaxMtime
    /\ posfiles[build_pos_file(binlogs[bi])].exists

\* The lines of the pass handled so far: the line read when the flag was found
\* set is not handled.
Handled == SubSeq(out, 1, IF pass.res = "break" THEN nread - 1 ELSE nread)

\* C20: while a binlog is streamed, after each line handled the position file
\* holds the position of the last `# at` line handled in this pass, or the
\* position the pass started from when there was none yet; a line that is no
\* `# at` line leaves the position file as it is.
C20_CursorFollowsMarkers ==
    /\ [](pc \in {"stream", "wait"} =>
            /\ posfiles[build_pos_file(pass.path)] =
                  File(TRUE, FinalMarker(Handled, pass.start))
            /\ last_position = FinalMarker(Handled, pass.start))
    /\ [][(pc = "stream" /\ nread' = nread + 1 /\ out[nread + 1].k # "at") =>
            posfiles' = posfiles]_vars

\* Two `# at` lines and the lines between them have been handled in a pass that
\* started from position 0.
C20_Witness ==
    /\ pc = "stream"
    /\ pass.start = DecStr(0)
    /\ nread > 2
    /\ out[nread].k = "at"
    /\ out[nread].n = OffsetOf(2)
    /\ posfiles[build_pos_file(pass.path)].data = DecStr(OffsetOf(2))

\* Journals of well-formed events and of events with too few or too many values.
MismatchJournals == JournalsOf(CleanBodies \cup {ShortBody, LongBody})

\* The number of values an emitted event carries in its lists.
ValuesOf(e) ==
    {Cardinality(DOMAIN m) :
        m \in (IF e.type \in {"INSERT", "UPDATE"} THEN {e.set} ELSE {})
               \cup (IF e.type \in {"UPDATE", "DELETE"} THEN {e.where} ELSE {})}

\* C21: over a journal whose only faults are events with more or fewer values
\* than the table has columns, such an event is never dispatched, and no pass
\* over the journal is ended by an exception: the events after it are handled.
C21_MismatchDroppedAndPassGoesOn ==
    journal[P1] \in MismatchJournals =>
        /\ pass.res # "exc"
        /\ \A k \in 1..Len(dispatched) :
              ValuesOf(dispatched[k]) = {Len(column_names[dispatched[k].table])}

\* The last line handled is a column line that directly follows the header of
\* an event of a table with a callback.
ColumnAfterHeader ==
    /\ pc \in {"stream", "wait"}
    /\ pass.res # "eof"
    /\ Len(Handled) >= 2
    /\ Handled[Len(Handled)].k = "col"
    /\ Len(Handled) - 1 \in TrackedHeaders(Handled)

\* C22: a column line that directly follows an INSERT header is appended to
\* the SET list, and one that directly follows a DELETE header to the WHERE
\* list, without an error.
C22_HeaderFixesPhase ==
    ColumnAfterHeader =>
        /\ pass.res # "exc"
        /\ Handled[Len(Handled) - 1].word = "INSERT" => Len(current.SET) = 1
        /\ Handled[Len(Handled) - 1].word = "DELETE" => Len(current.WHERE) = 1

\* The index the column line i of lines has to carry: the number of column
\* lines from the line that started its list up to it.
NextIndex(lines, i) ==
    LET since == {j \in 1..(i - 1) : lines[j].k \in {"hdr", "SET", "WHERE"}}
        from == IF since = {} THEN 0 ELSE CHOOSE j \in since : \A k \in since : k <= j
    IN Cardinality({j \in (from + 1)..i : lines[j].k = "col"})

\* C23: when the line just handled is a column line of an event in progress
\* whose index is not the next one of its list, the event is marked invalid
\* and its value has not been appended to the list.
C23_IndicesInOrder ==
    (/\ pc = "stream"
     /\ nread >= 1
     /\ out[nread].k = "col"
     /\ current # NoQuery
     /\ out[nread].n # NextIndex(out, nread)) =>
        /\ current.invalid
        /\ Len(current[current.current_value_type]) < NextIndex(out, nread)

\* C24: in a step taken while the flag is set, a binlog whose turn in the sweep
\* comes is passed over (no position file is opened, no pass begins), the main
\* loop starts no sweep, and a line read from the stream is not handled: the
\* parser, the position file and the queue stay as they are.
C24_NothingStartedOnceDone ==
    [][done =>
          /\ pc = "sweep" => (pc' # "opened" /\ posfiles' = posfiles /\ pass' = pass)
          /\ pc \in {"main", "sleep"} => pc' # "sweep"
          /\ (pc = "stream" /\ nread' = nread + 1) =>
                (current' = current /\ posfiles' = posfiles /\ dispatched' = dispatched)]_vars

\* The flag was set while the first binlog of the index was streamed: the sweep
\* is over, the second binlog was never looked at and has no position file.
C24_Witness ==
    /\ done
    /\ pc = "sweep"
    /\ bi = Len(binlogs) + 1
    /\ posfiles[build_pos_file(P1)].exists
    /\ ~posfiles[build_pos_file(P2)].exists
    /\ binlog_mtimes[P2] = 0

\* ------------------------------- an index of two binlogs of one sequence number
\* The first start of the agent over an index whose two binlogs have different
\* base names and the same extension.
InitShared ==
    /\ journal \in IndexedJournals(<<P1, P3>>, SweepJournals)
    /\ index = <<P1, P3>>
    /\ OthersIdle
    /\ mtime = [b \in Paths |-> 1]
    /\ posfiles = [f \in PosFiles |-> NoFile]
    /\ dispatched = <<>>
    /\ run = 1
    /\ Fresh

SpecShared == InitShared /\ [][NextRun]_vars

\* C25: each binlog of the index has a position file of its own, so the
\* position a pass starts from is the one of its own binlog: in the one run of
\* the agent, where each binlog is processed once and no position of it was
\* written before, every pass starts from position 0, whatever the passes over
\* the other binlogs of the index wrote.
C25_OwnPosition ==
    (pass # NoPass /\ pass.path \in Indexed) => pass.start = DecStr(0)

\* C26: when an exception has ended a pass over a binlog, the remembered mtime
\* of the binlog is its current one and its position file holds the last
\* `# at` line the pass handled.  In the same process nothing but the start of
\* a pass changes a position file after that, the remembered mtime only ever
\* becomes the current one, and a pass starts only over a binlog whose mtime is
\* greater than the remembered one: it starts from the content of the position
\* file.
C26_AbandonedPassResumes ==
    /\ [](pass.res = "exc" =>
            /\ pc = "wait"
            /\ binlog_mtimes[pass.path] = mtime[pass.path]
            /\ posfiles[build_pos_file(pass.path)] =
                  File(TRUE, FinalMarker(Handled, pass.start)))
    /\ [][(run' = run /\ pc' # "crashed") =>
            /\ (pc \in {"wait", "sweep", "main", "sleep"} /\ pc' # "opened") =>
                  /\ posfiles' = posfiles
                  /\ \A b \in Paths : binlog_mtimes'[b] \in {binlog_mtimes[b], mtime[b]}
            /\ (pc # "opened" /\ pc' = "opened") =>
                  /\ pass'.path = binlogs[bi]
                  /\ binlog_mtimes[pass'.path] < mtime[pass'.path]
                  /\ LET file == posfiles[build_pos_file(pass'.path)]
                     IN file.data # <<>> => pass'.start = file.data]_vars

\* The first pass over a binlog, from position 0, was ended by the exception
\* at the column line of the second event, after `# at 52`; the binlog was
\* written to, and the next pass of the same process started from 52.
C26_Witness ==
    /\ journal[P1] = Blocks(<<InsertBody, BareBody>>, 1)
    /\ run = 1
    /\ mtime[P1] = MaxMtime
    /\ pc = "stream"
    /\ pass.path = P1
    /\ pass.start = DecStr(OffsetOf(2))
    /\ Len(dispatched) = 1

====
